---- MODULE Spec2Model ----
(***************************************************************************)
(* Model of the Mapsforge .map header/tag decoder of extract_tags.py:      *)
(* MapFileReader.read_variable_byte, read_utf8_string and extract_tags,    *)
(* of process_folder, and of PBFTagExtractor.extract_tags of               *)
(* extract_tags_pbf.py.                                                    *)
(* A file is a sequence of bytes (0..255); the stream cursor `pos` is the  *)
(* 0-based offset of the next byte, as f.tell() would report it.           *)
(* Strings are sequences of Unicode code points.                           *)
(***************************************************************************)
EXTENDS Integers, Sequences, FiniteSets, TLC

VARIABLES
    file,    \* the bytes of the file at self.filepath
    exists,  \* whether open(self.filepath, 'rb') can succeed
    pc,      \* the statement extract_tags is about to execute
    pos,     \* the cursor of the open stream f
    fopen,   \* whether the handle opened by extract_tags is open
    tags,    \* self.tags
    loc,     \* the local variables of extract_tags
    ret,     \* what extract_tags returned: "True", "False"; "none" while it runs
    err,     \* why it returned False: the exception caught, or InvalidMagic
    reads,   \* history: every f.read made, as [field, at, n]
    prim,    \* harness of the primitive decoders: the call made and its result
    vb,      \* read_variable_byte run one iteration at a time: its locals
    pbf,     \* PBFTagExtractor.extract_tags: arguments, environment, progress
    folder   \* process_folder: arguments, directory, locals, progress

vars == <<file, exists, vb, pbf, folder, pc, pos, fopen, tags, loc, ret, err, reads, prim>>

----------------------------------------------------------------------------
(* Bounds of the model *)

\* tag entries and declared tag counts of the generated files
MaxTags == 2
\* zoom-interval records of the generated files
MaxZoom == 1
\* length of the free byte tails put after the flags byte
MaxTail == 4
\* a declared tag count above this is not followed further
MaxCount == 4
\* length of the free byte streams handed to the primitive decoders
MaxStream == 4
\* the varint round trip is tried on every n in 0..MaxN (and on BoundaryN)
MaxN == 300

----------------------------------------------------------------------------
(* Bytes and the stream *)

\* read_variable_byte's `return None`
None == -1

\* MAGIC_BYTE = b"mapsforge binary OSM"
MAGIC_BYTE == <<109, 97, 112, 115, 102, 111, 114, 103, 101, 32,
                98, 105, 110, 97, 114, 121, 32, 79, 83, 77>>

\* f.read(n) at cursor p: the next n bytes, fewer at end of stream
read(s, p, n) == SubSeq(s, p + 1, IF n > Len(s) - p THEN Len(s) ELSE p + n)

\* flags & mask, as a truth value, for a one-bit mask
Bit(f, mask) == (f \div mask) % 2 = 1

RECURSIVE BigEndian(_)
\* the unsigned big-endian value of a byte string
BigEndian(b) ==
    IF b = <<>> THEN 0
    ELSE BigEndian(SubSeq(b, 1, Len(b) - 1)) * 256 + b[Len(b)]

\* a mutation of Width: the 64-bit fields are read as '>I', 4 bytes
Width_Q4(fmt) ==
    CASE fmt = "I" -> 4 [] fmt = "i" -> 4 [] fmt = "Q" -> 4
      [] fmt = "H" -> 2 [] fmt = "B0" -> 1

\* struct's field widths: I, i = 4 bytes, Q = 8, H = 2; "B0" is f.read(1)[0]
Width(fmt) ==
    CASE fmt = "I" -> 4 [] fmt = "i" -> 4 [] fmt = "Q" -> 8
      [] fmt = "H" -> 2 [] fmt = "B0" -> 1

RECURSIVE Limbs(_)
\* the unsigned big-endian value of a byte string wider than 16 bits, written
\* in base 65536 (most significant digit first): Python's integers are
\* unbounded, and the digits keep a 64-bit value exact
Limbs(b) ==
    IF Len(b) <= 2 THEN <<BigEndian(b)>>
    ELSE Limbs(SubSeq(b, 1, Len(b) - 2)) \o <<BigEndian(SubSeq(b, Len(b) - 1, Len(b)))>>

\* the value struct.unpack gives for bytes b: an integer for H and for
\* f.read(1)[0], base-65536 digits for I, i and Q (for i, those of the two's
\* complement pattern: the values of the i fields are only scaled and printed)
FixedValue(fmt, b) == IF Width(fmt) <= 2 THEN BigEndian(b) ELSE Limbs(b)

\* a mutation of read_fixed: a short read yields the value of the bytes at hand
read_fixed_lenient(fmt, b) == [err |-> "none", val |-> FixedValue(fmt, b)]

\* struct.unpack('>' + fmt, b)[0], and b[0] for "B0": the value, or the
\* exception a short read raises (struct.error, IndexError)
read_fixed(fmt, b) ==
    IF Len(b) # Width(fmt)
    THEN [err |-> IF fmt = "B0" THEN "IndexError" ELSE "struct.error", val |-> 0]
    ELSE [err |-> "none", val |-> FixedValue(fmt, b)]

----------------------------------------------------------------------------
(* read_variable_byte *)

\* x << k. Python's integers are unbounded; a zero group is shifted without
\* computing 2^k, so that streams of any length with zero data bits stay
\* within the model's integers
Shl(x, k) == IF x = 0 THEN 0 ELSE x * (2 ^ k)

\* a mutation of var_byte_step: at the end of the stream the loop goes round
\* again instead of returning None
var_byte_step_spin(s, st) ==
    LET byte == read(s, st.pos, 1) IN
    IF byte = <<>> THEN st
    ELSE LET b == byte[1]
             result == st.result + Shl(b % 128, st.shift) IN
         IF b < 128
         THEN [st EXCEPT !.pos = @ + 1, !.result = result, !.done = TRUE,
                         !.ret = result]
         ELSE [st EXCEPT !.pos = @ + 1, !.result = result, !.shift = @ + 7]

\* a mutation of var_byte_step: the data bits are masked with 0x3F
var_byte_step_mask(s, st) ==
    LET byte == read(s, st.pos, 1) IN
    IF byte = <<>> THEN [st EXCEPT !.done = TRUE, !.ret = None]
    ELSE LET b == byte[1]
             result == st.result + Shl(b % 64, st.shift) IN
         IF b < 128
         THEN [st EXCEPT !.pos = @ + 1, !.result = result, !.done = TRUE,
                         !.ret = result]
         ELSE [st EXCEPT !.pos = @ + 1, !.result = result, !.shift = @ + 7]

\* a mutation of var_byte_step: the continuation test is inverted
var_byte_step_inverted(s, st) ==
    LET byte == read(s, st.pos, 1) IN
    IF byte = <<>> THEN [st EXCEPT !.done = TRUE, !.ret = None]
    ELSE LET b == byte[1]
             result == st.result + Shl(b % 128, st.shift) IN
         IF b >= 128
         THEN [st EXCEPT !.pos = @ + 1, !.result = result, !.done = TRUE,
                         !.ret = result]
         ELSE [st EXCEPT !.pos = @ + 1, !.result = result, !.shift = @ + 7]

\* one iteration of the while loop. result |= (b & 0x7F) << shift is an
\* addition: result < 2^shift, as every earlier group is below 2^7
var_byte_step(s, st) ==
    LET byte == read(s, st.pos, 1) IN
    IF byte = <<>> THEN [st EXCEPT !.done = TRUE, !.ret = None]
    ELSE LET b == byte[1]
             result == st.result + Shl(b % 128, st.shift) IN
         IF b < 128
         THEN [st EXCEPT !.pos = @ + 1, !.result = result, !.done = TRUE,
                         !.ret = result]
         ELSE [st EXCEPT !.pos = @ + 1, !.result = result, !.shift = @ + 7]

\* result = 0, shift = 0 at cursor p
var_byte_start(p) ==
    [pos |-> p, result |-> 0, shift |-> 0, done |-> FALSE, ret |-> None]

RECURSIVE var_byte_loop(_, _)
\* while True: ... until a return or the break
var_byte_loop(s, st) ==
    IF st.done THEN st ELSE var_byte_loop(s, var_byte_step(s, st))

\* read_variable_byte(f): [ret: the integer or None, pos: the cursor after]
read_variable_byte(s, p) ==
    LET st == var_byte_loop(s, var_byte_start(p)) IN
    [ret |-> st.ret, pos |-> st.pos]

----------------------------------------------------------------------------
(* bytes.decode('utf-8', errors='ignore') *)

IsCont(x) == x >= 128 /\ x <= 191

\* the length of the well-formed UTF-8 sequence b starts with, 0 if none
Utf8SeqLen(b) ==
    LET n == Len(b)
        c2 == n >= 2 /\ IsCont(b[2])
        c3 == n >= 3 /\ IsCont(b[3])
        c4 == n >= 4 /\ IsCont(b[4]) IN
    CASE b[1] < 128 -> 1
      [] b[1] >= 194 /\ b[1] <= 223 -> IF c2 THEN 2 ELSE 0
      [] b[1] = 224 -> IF c2 /\ b[2] >= 160 /\ c3 THEN 3 ELSE 0
      [] b[1] = 237 -> IF c2 /\ b[2] <= 159 /\ c3 THEN 3 ELSE 0
      [] b[1] >= 225 /\ b[1] <= 239 /\ b[1] # 237 -> IF c2 /\ c3 THEN 3 ELSE 0
      [] b[1] = 240 -> IF c2 /\ b[2] >= 144 /\ c3 /\ c4 THEN 4 ELSE 0
      [] b[1] = 244 -> IF c2 /\ b[2] <= 143 /\ c3 /\ c4 THEN 4 ELSE 0
      [] b[1] >= 241 /\ b[1] <= 243 -> IF c2 /\ c3 /\ c4 THEN 4 ELSE 0
      [] OTHER -> 0

\* the code point of the n-byte sequence b starts with
Utf8CodePoint(b, n) ==
    CASE n = 1 -> b[1]
      [] n = 2 -> (b[1] % 32) * 64 + (b[2] % 64)
      [] n = 3 -> (b[1] % 16) * 4096 + (b[2] % 64) * 64 + (b[3] % 64)
      [] n = 4 -> (b[1] % 8) * 262144 + (b[2] % 64) * 4096
                  + (b[3] % 64) * 64 + (b[4] % 64)

RECURSIVE utf8_decode_replace(_)
\* a mutation of utf8_decode_ignore: errors='replace', U+FFFD for a byte that
\* starts no well-formed sequence
utf8_decode_replace(b) ==
    IF b = <<>> THEN <<>>
    ELSE LET n == Utf8SeqLen(b) IN
         IF n = 0 THEN <<65533>> \o utf8_decode_replace(Tail(b))
         ELSE <<Utf8CodePoint(b, n)>>
              \o utf8_decode_replace(SubSeq(b, n + 1, Len(b)))

RECURSIVE utf8_decode_ignore(_)
\* errors='ignore': a byte that starts no well-formed sequence is dropped
utf8_decode_ignore(b) ==
    IF b = <<>> THEN <<>>
    ELSE LET n == Utf8SeqLen(b) IN
         IF n = 0 THEN utf8_decode_ignore(Tail(b))
         ELSE <<Utf8CodePoint(b, n)>>
              \o utf8_decode_ignore(SubSeq(b, n + 1, Len(b)))

----------------------------------------------------------------------------
(* read_utf8_string *)

\* read_utf8_string(f): the string returned and the cursor after, with the
\* length prefix read and the number of string bytes f.read gave
read_utf8_string(s, p) ==
    LET v == read_variable_byte(s, p) IN
    IF v.ret = None \/ v.ret = 0
    THEN [str |-> <<>>, pos |-> v.pos, length |-> v.ret, nread |-> 0]
    ELSE LET string_bytes == read(s, v.pos, v.ret) IN
         [str |-> utf8_decode_ignore(string_bytes),
          pos |-> v.pos + Len(string_bytes),
          length |-> v.ret, nread |-> Len(string_bytes)]

----------------------------------------------------------------------------
(* The flag bits of extract_tags *)

\* a mutation of has_map_start_position: the mask of the debug bit is tested
has_map_start_position_0x80(f) == Bit(f, 128)

has_debug_info(f) == Bit(f, 128)
has_map_start_position(f) == Bit(f, 64)
has_start_zoom(f) == Bit(f, 32)
has_language_preference(f) == Bit(f, 16)
has_comment(f) == Bit(f, 8)
has_created_by(f) == Bit(f, 4)

----------------------------------------------------------------------------
(* The exits of extract_tags *)

\* a mutation of magic_ok: a file that is a prefix of the marker passes
magic_ok_prefix(magic) == magic = SubSeq(MAGIC_BYTE, 1, Len(magic))

\* the negation of `if magic != self.MAGIC_BYTE`
magic_ok(magic) == magic = MAGIC_BYTE

\* a mutation of with_exit: the handle is closed by hand after the last read,
\* so an exception leaves it open
with_exit_leak(outcome, was_open) == was_open /\ outcome = "exception"

\* `with open(...) as f`: leaving the block, by return or by exception,
\* closes the handle; the value of fopen after the exit
with_exit(outcome, was_open) == FALSE

\* the dictionary built from the locals
tags_dict(l) ==
    [poi_tags |-> l.poi_tags, way_tags |-> l.way_tags,
     zoom_intervals |-> l.zoom_intervals]

\* a mutation of tags_on_exit: what was decoded so far is stored on an exception
tags_on_exit_partial(outcome, l, old) ==
    IF outcome = "return_false" THEN old ELSE tags_dict(l)

\* self.tags after extract_tags: assigned only on the way to `return True`
tags_on_exit(outcome, l, old) ==
    IF outcome = "return_true" THEN tags_dict(l) ELSE old

\* a mutation of append_tag: an empty tag is skipped
append_tag_skip_empty(list, tag) == IF tag = <<>> THEN list ELSE Append(list, tag)

\* a mutation of append_tag: the tag is inserted at the front
append_tag_front(list, tag) == <<tag>> \o list

\* poi_tags.append(tag), way_tags.append(tag)
append_tag(list, tag) == Append(list, tag)

\* the locals before the first assignment
loc0 ==
    [flags |-> 0, num_poi_tags |-> 0, poi_tags |-> <<>>, num_way_tags |-> 0,
     way_tags |-> <<>>, num_zoom_intervals |-> 0, zoom_intervals |-> <<>>,
     i |-> 0, cur |-> <<>>]

\* the harness of the primitive decoders, before a call and while
\* extract_tags runs
prim0 ==
    [call |-> "none", n |-> None, pos0 |-> 0, ret |-> None, str |-> <<>>,
     length |-> None, nread |-> 0, raised |-> FALSE]

\* PBFTagExtractor.extract_tags not called: its arguments, what the machine
\* has installed and what the tools would do, and no progress
pbf0 ==
    [use_osmium |-> "None", verbose |-> TRUE, module_installed |-> TRUE,
     apply_file |-> "ok", osmium_version |-> "ok", tags_filter |-> "ok",
     tried_pyosmium |-> FALSE, tried_osmium |-> FALSE, fallback_printed |-> FALSE,
     ret |-> "none"]

\* process_folder not called: the directory, and its locals before line 262
folder0 ==
    [kind |-> "dir", glob |-> {}, outcome |-> <<>>, output_folder |-> FALSE,
     map_files |-> <<>>, i |-> 0, success_count |-> 0, failed_files |-> <<>>,
     all_poi_tags |-> {}, all_way_tags |-> {}, processed |-> <<>>,
     exported |-> <<>>, ret |-> "none"]

----------------------------------------------------------------------------
(* The files given to extract_tags *)

\* header size 0, version 5, file size 100, timestamp 0,
\* bounding box (1.0, 2.0, 3.0, 4.0) * 1,000,000, tile size 256
HeaderBytes ==
    <<0, 0, 0, 0>> \o <<0, 0, 0, 5>> \o <<0, 0, 0, 0, 0, 0, 0, 100>>
    \o <<0, 0, 0, 0, 0, 0, 0, 0>>
    \o <<0, 15, 66, 64>> \o <<0, 30, 132, 128>>
    \o <<0, 45, 198, 192>> \o <<0, 61, 9, 0>> \o <<1, 0>>

\* the projection "Mercator", length-prefixed
ProjectionBytes == <<8, 77, 101, 114, 99, 97, 116, 111, 114>>

\* everything before the flags byte of a well-formed file
Preamble == MAGIC_BYTE \o HeaderBytes \o ProjectionBytes

\* a count as an unsigned big-endian 16-bit integer
U16(n) == <<n \div 256, n % 256>>

\* encoded strings: "a", "", "b" followed by a stray continuation byte,
\* and "c" with the over-long length prefix 0x81 0x00
StringPool == << <<1, 97>>, <<0>>, <<2, 98, 128>>, <<129, 0, 99>> >>

PoiEntry(k) == StringPool[((k - 1) % 4) + 1]
WayEntry(k) == StringPool[(k % 4) + 1]

RECURSIVE Entries(_, _)
\* the first m entries of a tag table; way selects the way-tag strings
Entries(m, way) ==
    IF m = 0 THEN <<>>
    ELSE Entries(m - 1, way) \o (IF way THEN WayEntry(m) ELSE PoiEntry(m))

\* base zoom 14, min 8, max 17, subfile start 1000 + k, subfile size 5000
ZoomRecord(k) ==
    <<14, 8, 17>> \o <<0, 0, 0, 0, 0, 0, 3, 232 + k>>
    \o <<0, 0, 0, 0, 0, 0, 19, 136>>

RECURSIVE ZoomRecords(_)
ZoomRecords(m) == IF m = 0 THEN <<>> ELSE ZoomRecords(m - 1) \o ZoomRecord(m)

\* the optional fields a writer puts after flags f: start position
\* (-1.0, 2.0), start zoom 12, language "en", comment "", created by "x"
OptionalBytes(f) ==
    (IF Bit(f, 64) THEN <<255, 240, 189, 192>> \o <<0, 30, 132, 128>> ELSE <<>>)
    \o (IF Bit(f, 32) THEN <<12>> ELSE <<>>)
    \o (IF Bit(f, 16) THEN <<2, 101, 110>> ELSE <<>>)
    \o (IF Bit(f, 8) THEN <<0>> ELSE <<>>)
    \o (IF Bit(f, 4) THEN <<1, 120>> ELSE <<>>)

\* the flag bytes tried: every combination of the five optional-field bits,
\* and bytes with the debug bit and the two unused low bits
FlagValues == {4 * k : k \in 0..31} \cup {128, 3, 131, 255, 144, 67, 160, 11}

\* the tag and zoom tables: np and nw declared tag counts, mp and mw entries
\* present, nz declared zoom intervals with mz records present, and one byte
\* of subfile data after them
Tables(np, mp, nw, mw, nz, mz) ==
    U16(np) \o Entries(mp, FALSE) \o U16(nw) \o Entries(mw, TRUE)
    \o <<nz>> \o ZoomRecords(mz) \o <<7>>

Prefixes(f) == {SubSeq(f, 1, k) : k \in 0..Len(f)}

\* the bytes of the free tails
ByteAlphabet == {0, 1, 2, 128}

RECURSIVE SeqsUpTo(_, _)
\* the sequences over S of length at most n
SeqsUpTo(S, n) ==
    IF n = 0 THEN {<<>>}
    ELSE LET shorter == SeqsUpTo(S, n - 1) IN
         shorter \cup {Append(t, x) : t \in shorter, x \in S}

\* well-formed files for every flags byte, cut at every length
FlagFiles ==
    UNION {Prefixes(Preamble \o <<f>> \o OptionalBytes(f)
                    \o Tables(1, 1, 1, 1, 1, 1)) : f \in FlagValues}

\* files without optional fields whose declared POI count and zoom-interval
\* count may differ from the entries present, cut at every length
TableFiles ==
    UNION {Prefixes(Preamble \o <<0>> \o Tables(np, mp, nw, nw, nz, mz)) :
           np \in 0..(MaxTags + 1), mp \in 0..MaxTags, nw \in 0..MaxTags,
           nz \in 0..MaxZoom, mz \in 0..MaxZoom}

\* files with arbitrary bytes after the flags byte
TailFiles ==
    {Preamble \o <<f>> \o t : f \in {0, 16}, t \in SeqsUpTo(ByteAlphabet, MaxTail)}

\* well-formed files but for one byte of the marker
BadMagicFiles ==
    {[MAGIC_BYTE EXCEPT ![k] = 0] \o HeaderBytes \o ProjectionBytes \o <<0>>
     \o Tables(1, 1, 0, 0, 0, 0) : k \in 1..Len(MAGIC_BYTE)}

\* a well-formed file whose two POI tags are the same string
DuplicateTagFiles ==
    {Preamble \o <<0>> \o U16(2) \o <<1, 97>> \o <<1, 97>> \o U16(0) \o <<0>>}

Files ==
    FlagFiles \cup TableFiles \cup TailFiles \cup BadMagicFiles
    \cup DuplicateTagFiles

----------------------------------------------------------------------------
(* extract_tags *)

Init ==
    /\ \/ exists = TRUE /\ file \in Files
       \/ exists = FALSE /\ file = <<>>
    /\ pc = "open"
    /\ pos = 0
    /\ fopen = FALSE
    /\ tags = <<>>
    /\ loc = loc0
    /\ ret = "none"
    /\ err = "none"
    /\ reads = <<>>
    /\ prim = prim0
    /\ vb = var_byte_start(0)
    /\ pbf = pbf0
    /\ folder = folder0

\* leaving extract_tags: by `return True`, by `return False` after the
\* marker test, or through `except Exception` (which returns False)
Exit(outcome, kind) ==
    /\ pc' = "done"
    /\ ret' = IF outcome = "return_true" THEN "True" ELSE "False"
    /\ err' = kind
    /\ fopen' = with_exit(outcome, fopen)
    /\ tags' = tags_on_exit(outcome, loc, tags)

\* a mutation of Consume: the flags byte is peeked at and the cursor put back
Consume_peek_flags(field, n, short) ==
    /\ reads' = Append(reads, [field |-> field, at |-> pos, n |-> n,
                               short |-> short])
    /\ pos' = IF field = "flags" THEN pos ELSE pos + n

\* the reads of one decoding step gave n bytes for `field`; short tells
\* that the stream ended before the bytes asked for were there
Consume(field, n, short) ==
    /\ reads' = Append(reads, [field |-> field, at |-> pos, n |-> n,
                               short |-> short])
    /\ pos' = pos + n

\* whether read_utf8_string ran into the end of the stream
StringShort(r) == r.length = None \/ r.nread < r.length

\* a fixed-width header field whose value is only printed
HeaderField(field, fmt, next) ==
    LET b == read(file, pos, Width(fmt))
        r == read_fixed(fmt, b) IN
    /\ pc = field
    /\ Consume(field, Len(b), Len(b) < Width(fmt))
    /\ IF r.err # "none"
       THEN Exit("exception", r.err)
       ELSE pc' = next /\ UNCHANGED <<ret, err, fopen, tags>>
    /\ UNCHANGED <<pbf, folder, file, exists, vb, loc, prim>>

\* a length-prefixed header string whose value is only printed
HeaderString(field, present, next) ==
    /\ pc = field
    /\ IF present
       THEN LET r == read_utf8_string(file, pos) IN
            Consume(field, r.pos - pos, StringShort(r))
       ELSE UNCHANGED <<reads, pos>>
    /\ pc' = next
    /\ UNCHANGED <<pbf, folder, file, exists, vb, loc, prim, ret, err, fopen, tags>>

\* open(self.filepath, 'rb')
Open ==
    /\ pc = "open"
    /\ IF exists
       THEN pc' = "magic" /\ fopen' = TRUE /\ UNCHANGED <<ret, err, tags>>
       ELSE Exit("exception", "OSError")
    /\ UNCHANGED <<pbf, folder, file, exists, vb, pos, loc, reads, prim>>

\* magic = f.read(len(self.MAGIC_BYTE)) and its test
ReadMagic ==
    LET magic == read(file, pos, Len(MAGIC_BYTE)) IN
    /\ pc = "magic"
    /\ Consume("magic", Len(magic), Len(magic) < Len(MAGIC_BYTE))
    /\ IF magic_ok(magic)
       THEN pc' = "header_size" /\ UNCHANGED <<ret, err, fopen, tags>>
       ELSE Exit("return_false", "InvalidMagic")
    /\ UNCHANGED <<pbf, folder, file, exists, vb, loc, prim>>

ReadHeaderSize == HeaderField("header_size", "I", "file_version")
ReadFileVersion == HeaderField("file_version", "I", "file_size")
ReadFileSize == HeaderField("file_size", "Q", "date_created")
ReadDateCreated == HeaderField("date_created", "Q", "min_lat")
ReadMinLat == HeaderField("min_lat", "i", "min_lon")
ReadMinLon == HeaderField("min_lon", "i", "max_lat")
ReadMaxLat == HeaderField("max_lat", "i", "max_lon")
ReadMaxLon == HeaderField("max_lon", "i", "tile_size")
ReadTileSize == HeaderField("tile_size", "H", "projection")
ReadProjection == HeaderString("projection", TRUE, "flags")

\* flags = f.read(1)[0]
ReadFlags ==
    LET b == read(file, pos, 1)
        r == read_fixed("B0", b) IN
    /\ pc = "flags"
    /\ Consume("flags", Len(b), Len(b) < 1)
    /\ IF r.err # "none"
       THEN Exit("exception", r.err) /\ loc' = loc
       ELSE /\ loc' = [loc EXCEPT !.flags = r.val]
            /\ pc' = "start_lat"
            /\ UNCHANGED <<ret, err, fopen, tags>>
    /\ UNCHANGED <<pbf, folder, file, exists, vb, prim>>

\* if has_map_start_position: start_lat = ...
ReadStartLat ==
    IF has_map_start_position(loc.flags)
    THEN HeaderField("start_lat", "i", "start_lon")
    ELSE /\ pc = "start_lat"
         /\ pc' = "start_zoom"
         /\ UNCHANGED <<pbf, folder, file, exists, vb, pos, fopen, tags, loc, ret, err, reads, prim>>

\* start_lon = ...
ReadStartLon == HeaderField("start_lon", "i", "start_zoom")

\* if has_start_zoom: start_zoom = f.read(1)[0]
ReadStartZoom ==
    IF has_start_zoom(loc.flags)
    THEN HeaderField("start_zoom", "B0", "language")
    ELSE /\ pc = "start_zoom"
         /\ pc' = "language"
         /\ UNCHANGED <<pbf, folder, file, exists, vb, pos, fopen, tags, loc, ret, err, reads, prim>>

ReadLanguage ==
    HeaderString("language", has_language_preference(loc.flags), "comment")
ReadComment == HeaderString("comment", has_comment(loc.flags), "created_by")
ReadCreatedBy ==
    HeaderString("created_by", has_created_by(loc.flags), "num_poi_tags")

\* num_poi_tags = struct.unpack('>H', f.read(2))[0]; poi_tags = []
ReadNumPoiTags ==
    LET b == read(file, pos, 2)
        r == read_fixed("H", b) IN
    /\ pc = "num_poi_tags"
    /\ Consume("num_poi_tags", Len(b), Len(b) < 2)
    /\ IF r.err # "none"
       THEN Exit("exception", r.err) /\ loc' = loc
       ELSE /\ r.val <= MaxCount
            /\ loc' = [loc EXCEPT !.num_poi_tags = r.val, !.poi_tags = <<>>,
                                  !.i = 0]
            /\ pc' = "poi_tag"
            /\ UNCHANGED <<ret, err, fopen, tags>>
    /\ UNCHANGED <<pbf, folder, file, exists, vb, prim>>

\* for i in range(num_poi_tags): poi_tags.append(self.read_utf8_string(f))
ReadPoiTag ==
    /\ pc = "poi_tag"
    /\ IF loc.i < loc.num_poi_tags
       THEN LET r == read_utf8_string(file, pos) IN
            /\ Consume("poi_tag", r.pos - pos, StringShort(r))
            /\ loc' = [loc EXCEPT !.poi_tags = append_tag(@, r.str), !.i = @ + 1]
            /\ pc' = pc
       ELSE pc' = "num_way_tags" /\ UNCHANGED <<reads, pos, loc>>
    /\ UNCHANGED <<pbf, folder, file, exists, vb, prim, ret, err, fopen, tags>>

\* num_way_tags = struct.unpack('>H', f.read(2))[0]; way_tags = []
ReadNumWayTags ==
    LET b == read(file, pos, 2)
        r == read_fixed("H", b) IN
    /\ pc = "num_way_tags"
    /\ Consume("num_way_tags", Len(b), Len(b) < 2)
    /\ IF r.err # "none"
       THEN Exit("exception", r.err) /\ loc' = loc
       ELSE /\ r.val <= MaxCount
            /\ loc' = [loc EXCEPT !.num_way_tags = r.val, !.way_tags = <<>>,
                                  !.i = 0]
            /\ pc' = "way_tag"
            /\ UNCHANGED <<ret, err, fopen, tags>>
    /\ UNCHANGED <<pbf, folder, file, exists, vb, prim>>

\* for i in range(num_way_tags): way_tags.append(self.read_utf8_string(f))
ReadWayTag ==
    /\ pc = "way_tag"
    /\ IF loc.i < loc.num_way_tags
       THEN LET r == read_utf8_string(file, pos) IN
            /\ Consume("way_tag", r.pos - pos, StringShort(r))
            /\ loc' = [loc EXCEPT !.way_tags = append_tag(@, r.str), !.i = @ + 1]
            /\ pc' = pc
       ELSE pc' = "num_zoom_intervals" /\ UNCHANGED <<reads, pos, loc>>
    /\ UNCHANGED <<pbf, folder, file, exists, vb, prim, ret, err, fopen, tags>>

\* num_zoom_intervals = f.read(1)[0]; zoom_intervals = []
ReadNumZoomIntervals ==
    LET b == read(file, pos, 1)
        r == read_fixed("B0", b) IN
    /\ pc = "num_zoom_intervals"
    /\ Consume("num_zoom_intervals", Len(b), Len(b) < 1)
    /\ IF r.err # "none"
       THEN Exit("exception", r.err) /\ loc' = loc
       ELSE /\ loc' = [loc EXCEPT !.num_zoom_intervals = r.val,
                                  !.zoom_intervals = <<>>, !.i = 0, !.cur = <<>>]
            /\ pc' = "base_zoom"
            /\ UNCHANGED <<ret, err, fopen, tags>>
    /\ UNCHANGED <<pbf, folder, file, exists, vb, prim>>

\* one field of a zoom-interval record, kept in loc.cur until the append
ZoomField(field, fmt, next) ==
    LET b == read(file, pos, Width(fmt))
        r == read_fixed(fmt, b) IN
    /\ pc = field
    /\ Consume(field, Len(b), Len(b) < Width(fmt))
    /\ IF r.err # "none"
       THEN Exit("exception", r.err) /\ loc' = loc
       ELSE /\ loc' = [loc EXCEPT !.cur = Append(@, r.val)]
            /\ pc' = next
            /\ UNCHANGED <<ret, err, fopen, tags>>
    /\ UNCHANGED <<pbf, folder, file, exists, vb, prim>>

\* for i in range(num_zoom_intervals): base_zoom = f.read(1)[0]
ReadBaseZoom ==
    IF loc.i < loc.num_zoom_intervals
    THEN ZoomField("base_zoom", "B0", "min_zoom")
    ELSE /\ pc = "base_zoom"
         /\ pc' = "assign"
         /\ UNCHANGED <<pbf, folder, file, exists, vb, pos, fopen, tags, loc, ret, err, reads, prim>>

ReadMinZoom == ZoomField("min_zoom", "B0", "max_zoom")
ReadMaxZoom == ZoomField("max_zoom", "B0", "subfile_start")
ReadSubfileStart == ZoomField("subfile_start", "Q", "subfile_size")

\* subfile_size = ...; zoom_intervals.append({...})
ReadSubfileSize ==
    LET b == read(file, pos, 8)
        r == read_fixed("Q", b) IN
    /\ pc = "subfile_size"
    /\ Consume("subfile_size", Len(b), Len(b) < 8)
    /\ IF r.err # "none"
       THEN Exit("exception", r.err) /\ loc' = loc
       ELSE /\ loc' = [loc EXCEPT
                 !.zoom_intervals =
                     Append(@, [base_zoom |-> loc.cur[1], min_zoom |-> loc.cur[2],
                                max_zoom |-> loc.cur[3],
                                subfile_start |-> loc.cur[4],
                                subfile_size |-> r.val]),
                 !.i = @ + 1, !.cur = <<>>]
            /\ pc' = "base_zoom"
            /\ UNCHANGED <<ret, err, fopen, tags>>
    /\ UNCHANGED <<pbf, folder, file, exists, vb, prim>>

\* self.tags = {...}; return True
ReturnTrue ==
    /\ pc = "assign"
    /\ Exit("return_true", "none")
    /\ UNCHANGED <<pbf, folder, file, exists, vb, pos, loc, reads, prim>>

Next ==
    \/ Open
    \/ ReadMagic
    \/ ReadHeaderSize
    \/ ReadFileVersion
    \/ ReadFileSize
    \/ ReadDateCreated
    \/ ReadMinLat
    \/ ReadMinLon
    \/ ReadMaxLat
    \/ ReadMaxLon
    \/ ReadTileSize
    \/ ReadProjection
    \/ ReadFlags
    \/ ReadStartLat
    \/ ReadStartLon
    \/ ReadStartZoom
    \/ ReadLanguage
    \/ ReadComment
    \/ ReadCreatedBy
    \/ ReadNumPoiTags
    \/ ReadPoiTag
    \/ ReadNumWayTags
    \/ ReadWayTag
    \/ ReadNumZoomIntervals
    \/ ReadBaseZoom
    \/ ReadMinZoom
    \/ ReadMaxZoom
    \/ ReadSubfileStart
    \/ ReadSubfileSize
    \/ ReturnTrue

Spec == Init /\ [][Next]_vars

----------------------------------------------------------------------------
(* The primitive decoders on their own *)

RECURSIVE encode_varint(_)
\* the standard encoding of n: 7 bits per byte, low group first, the high
\* bit set on every byte but the last
encode_varint(n) ==
    IF n < 128 THEN <<n>> ELSE <<128 + (n % 128)>> \o encode_varint(n \div 128)

\* the encodings' lengths change at 2^7, 2^14, 2^21 and 2^28
BoundaryN ==
    {127, 128, 129, 16383, 16384, 16385, 2097151, 2097152, 2097153,
     268435455, 268435456, 2147483647}

\* a stream, a cursor in it, and no call made yet: the standard encoding of
\* a number n followed by other bytes, or arbitrary bytes
PrimInit ==
    /\ exists = TRUE
    /\ pc = "prim"
    /\ fopen = FALSE
    /\ tags = <<>>
    /\ loc = loc0
    /\ ret = "none"
    /\ err = "none"
    /\ reads = <<>>
    /\ vb = var_byte_start(0)
    /\ pbf = pbf0
    /\ folder = folder0
    /\ \E pre \in {<<>>, <<200>>} :
        /\ pos = Len(pre)
        /\ \/ \E n \in (0..MaxN) \cup BoundaryN, sfx \in {<<>>, <<0>>, <<129, 1>>} :
                /\ file = pre \o encode_varint(n) \o sfx
                /\ prim = [prim0 EXCEPT !.n = n, !.pos0 = Len(pre)]
           \/ \E t \in SeqsUpTo(ByteAlphabet, MaxStream) :
                /\ file = pre \o t
                /\ prim = [prim0 EXCEPT !.pos0 = Len(pre)]

\* self.read_variable_byte(f)
CallReadVariableByte ==
    LET r == read_variable_byte(file, pos) IN
    /\ pc = "prim"
    /\ pc' = "prim_done"
    /\ pos' = r.pos
    /\ prim' = [prim EXCEPT !.call = "read_variable_byte", !.ret = r.ret]
    /\ UNCHANGED <<pbf, folder, file, exists, vb, fopen, tags, loc, ret, err, reads>>

\* self.read_utf8_string(f): it has no raise and calls nothing that raises
\* on a short stream, so it always returns a string
CallReadUtf8String ==
    LET r == read_utf8_string(file, pos) IN
    /\ pc = "prim"
    /\ pc' = "prim_done"
    /\ pos' = r.pos
    /\ prim' = [prim EXCEPT !.call = "read_utf8_string", !.str = r.str,
                            !.length = r.length, !.nread = r.nread,
                            !.raised = FALSE]
    /\ UNCHANGED <<pbf, folder, file, exists, vb, fopen, tags, loc, ret, err, reads>>

PrimNext == CallReadVariableByte \/ CallReadUtf8String

SpecPrim == PrimInit /\ [][PrimNext]_vars

----------------------------------------------------------------------------
(* read_variable_byte, one iteration of its loop at a time *)

\* the longest run of continuation bytes of the generated streams
MaxRun == 12

\* k continuation bytes 0x80
ContinuationRun(k) == [i \in 1..k |-> 128]

\* streams of continuation bytes only, and the same ended by a final byte
ContinuationStreams ==
    {ContinuationRun(k) \o e : k \in 0..MaxRun, e \in {<<>>, <<0>>}}

\* a stream with the cursor at its start, read_variable_byte just entered
VarByteInit ==
    /\ exists = TRUE
    /\ pc = "var_byte"
    /\ fopen = FALSE
    /\ tags = <<>>
    /\ loc = loc0
    /\ ret = "none"
    /\ err = "none"
    /\ reads = <<>>
    /\ prim = prim0
    /\ pos = 0
    /\ file \in SeqsUpTo(ByteAlphabet, MaxStream) \cup ContinuationStreams
    /\ vb = var_byte_start(0)
    /\ pbf = pbf0
    /\ folder = folder0

\* one pass through the body of `while True`
VarByteIterate ==
    /\ pc = "var_byte"
    /\ ~vb.done
    /\ vb' = var_byte_step(file, vb)
    /\ pos' = vb'.pos
    /\ UNCHANGED <<pbf, folder, file, exists, pc, fopen, tags, loc, ret, err, reads, prim>>

\* `return None` or `return result`
VarByteReturn ==
    /\ pc = "var_byte"
    /\ vb.done
    /\ pc' = "var_byte_done"
    /\ prim' = [prim EXCEPT !.call = "read_variable_byte", !.ret = vb.ret]
    /\ UNCHANGED <<pbf, folder, file, exists, vb, pos, fopen, tags, loc, ret, err, reads>>

VarByteNext == VarByteIterate \/ VarByteReturn

\* the interpreter keeps executing the loop: a step that can be taken is
\* taken
SpecVarByte == VarByteInit /\ [][VarByteNext]_vars /\ WF_vars(VarByteNext)

----------------------------------------------------------------------------
(* PBFTagExtractor.extract_tags of extract_tags_pbf.py *)

\* check_osmium_installed: `osmium --version` ran and exited with 0
check_osmium_installed(e) == e.osmium_version = "ok"

\* extract_tags_with_pyosmium: "False" when `import osmium` fails (the
\* ImportError is caught inside), "raise" when apply_file raises (nothing
\* inside catches it), "True" otherwise
extract_tags_with_pyosmium(e) ==
    IF ~e.module_installed THEN "False"
    ELSE IF e.apply_file = "raise" THEN "raise"
    ELSE "True"

\* extract_tags_with_osmium: every failure inside its try returns False
extract_tags_with_osmium(e) ==
    IF ~check_osmium_installed(e) THEN "False"
    ELSE CASE e.tags_filter = "ok" -> "True"
           [] e.tags_filter = "nonzero" -> "False"
           [] e.tags_filter = "TimeoutExpired" -> "False"
           [] e.tags_filter = "Exception" -> "False"

\* a call extract_tags(verbose, use_osmium) on a machine where the osmium
\* module and osmium-tool are or are not installed and work or fail
PbfInit ==
    /\ exists = TRUE
    /\ file = <<>>
    /\ pc = "pbf_extract_tags"
    /\ pos = 0
    /\ fopen = FALSE
    /\ tags = <<>>
    /\ loc = loc0
    /\ ret = "none"
    /\ err = "none"
    /\ reads = <<>>
    /\ prim = prim0
    /\ vb = var_byte_start(0)
    /\ folder = folder0
    /\ \E u \in {"None", "True", "False"}, v \in BOOLEAN, m \in BOOLEAN,
          a \in {"ok", "raise"},
          o \in {"ok", "nonzero", "FileNotFoundError"},
          t \in {"ok", "nonzero", "TimeoutExpired", "Exception"} :
        pbf = [pbf0 EXCEPT !.use_osmium = u, !.verbose = v,
                           !.module_installed = m, !.apply_file = a,
                           !.osmium_version = o, !.tags_filter = t]

\* the branch on use_osmium
PbfExtractTags ==
    /\ pc = "pbf_extract_tags"
    /\ pc' = IF pbf.use_osmium = "True" THEN "pbf_with_osmium"
             ELSE "pbf_with_pyosmium"
    /\ UNCHANGED <<pbf, folder, file, exists, vb, pos, fopen, tags, loc, ret,
                   err, reads, prim>>

\* self.extract_tags_with_pyosmium(verbose), and the `except Exception`
\* around it when use_osmium is None
PbfWithPyosmium ==
    LET r == extract_tags_with_pyosmium(pbf) IN
    /\ pc = "pbf_with_pyosmium"
    /\ IF r = "raise" /\ pbf.use_osmium = "None"
       THEN /\ pc' = "pbf_with_osmium"
            /\ pbf' = [pbf EXCEPT !.tried_pyosmium = TRUE,
                                  !.fallback_printed = pbf.verbose]
       ELSE /\ pc' = "pbf_done"
            /\ pbf' = [pbf EXCEPT !.tried_pyosmium = TRUE, !.ret = r]
    /\ UNCHANGED <<folder, file, exists, vb, pos, fopen, tags, loc, ret, err,
                   reads, prim>>

\* return self.extract_tags_with_osmium(verbose)
PbfWithOsmium ==
    /\ pc = "pbf_with_osmium"
    /\ pc' = "pbf_done"
    /\ pbf' = [pbf EXCEPT !.tried_osmium = TRUE,
                          !.ret = extract_tags_with_osmium(pbf)]
    /\ UNCHANGED <<folder, file, exists, vb, pos, fopen, tags, loc, ret, err,
                   reads, prim>>

PbfNext == PbfExtractTags \/ PbfWithPyosmium \/ PbfWithOsmium

SpecPbf == PbfInit /\ [][PbfNext]_vars

----------------------------------------------------------------------------
(* process_folder *)

\* the .map files a folder can hold, named 1..MaxFiles in the order of
\* their paths
MaxFiles == 3

Range(q) == {q[k] : k \in DOMAIN q}

RECURSIVE sorted(_)
\* sorted(folder.glob("*.map"))
sorted(S) ==
    IF S = {} THEN <<>>
    ELSE LET m == CHOOSE x \in S : \A y \in S : x <= y IN
         <<m>> \o sorted(S \ {m})

\* reader.tags after a successful extract_tags of the file `name`: one tag
\* of its own and tags every file has, one of them twice
FileTags(name) ==
    [poi_tags |-> << <<97>>, <<48 + name>> >>,
     way_tags |-> << <<98>>, <<48 + name>>, <<98>> >>]

\* a mutation of process_file: an exception out of extract_tags is swallowed
process_file_swallow(st, name, outcome) ==
    IF outcome = "True"
    THEN [st EXCEPT !.success_count = @ + 1,
                    !.all_poi_tags = @ \cup Range(FileTags(name).poi_tags),
                    !.all_way_tags = @ \cup Range(FileTags(name).way_tags),
                    !.exported = IF st.output_folder THEN Append(@, name) ELSE @]
    ELSE IF outcome = "False"
    THEN [st EXCEPT !.failed_files = Append(@, name)]
    ELSE st

\* the try statement of the loop body: extract_tags returned True, returned
\* False, or an exception reached `except Exception`
process_file(st, name, outcome) ==
    IF outcome = "True"
    THEN [st EXCEPT !.success_count = @ + 1,
                    !.all_poi_tags = @ \cup Range(FileTags(name).poi_tags),
                    !.all_way_tags = @ \cup Range(FileTags(name).way_tags),
                    !.exported = IF st.output_folder THEN Append(@, name) ELSE @]
    ELSE [st EXCEPT !.failed_files = Append(@, name)]

\* a call process_folder(folder_path, output_folder): the path is missing,
\* is no directory, or is a directory holding any of the files, each of
\* which decodes, fails to decode, or raises
FolderInit ==
    /\ exists = TRUE
    /\ file = <<>>
    /\ pc = "folder_enter"
    /\ pos = 0
    /\ fopen = FALSE
    /\ tags = <<>>
    /\ loc = loc0
    /\ ret = "none"
    /\ err = "none"
    /\ reads = <<>>
    /\ prim = prim0
    /\ vb = var_byte_start(0)
    /\ pbf = pbf0
    /\ \/ \E k \in {"missing", "not_dir"}, o \in BOOLEAN :
            folder = [folder0 EXCEPT !.kind = k, !.output_folder = o]
       \/ \E g \in SUBSET (1..MaxFiles), o \in BOOLEAN :
            \E out \in [g -> {"True", "False", "raise"}] :
                folder = [folder0 EXCEPT !.glob = g, !.outcome = out,
                                         !.output_folder = o]

\* lines 237-265: the tests of the path, the sorted list, the locals
FolderEnter ==
    /\ pc = "folder_enter"
    /\ IF folder.kind # "dir" \/ sorted(folder.glob) = <<>>
       THEN /\ pc' = "folder_done"
            /\ folder' = [folder EXCEPT !.ret = "False"]
       ELSE /\ pc' = "folder_loop"
            /\ folder' = [folder EXCEPT !.map_files = sorted(folder.glob),
                                        !.i = 1]
    /\ UNCHANGED <<pbf, file, exists, vb, pos, fopen, tags, loc, ret, err,
                   reads, prim>>

\* one iteration of `for i, map_file in enumerate(map_files, 1)`
ProcessFile ==
    /\ pc = "folder_loop"
    /\ folder.i <= Len(folder.map_files)
    /\ LET name == folder.map_files[folder.i]
           st == process_file(folder, name, folder.outcome[name]) IN
       folder' = [st EXCEPT !.i = @ + 1, !.processed = Append(@, name)]
    /\ UNCHANGED <<pbf, file, exists, vb, pc, pos, fopen, tags, loc, ret, err,
                   reads, prim>>

\* after the loop: the summary and `return len(failed_files) == 0`
FolderSummary ==
    /\ pc = "folder_loop"
    /\ folder.i > Len(folder.map_files)
    /\ pc' = "folder_done"
    /\ folder' = [folder EXCEPT
                    !.ret = IF Len(folder.failed_files) = 0 THEN "True"
                            ELSE "False"]
    /\ UNCHANGED <<pbf, file, exists, vb, pos, fopen, tags, loc, ret, err,
                   reads, prim>>

FolderNext == FolderEnter \/ ProcessFile \/ FolderSummary

SpecFolder == FolderInit /\ [][FolderNext]_vars

----------------------------------------------------------------------------
(* Reading the history of a run *)

HasRead(field) == \E k \in DOMAIN reads : reads[k].field = field

\* the first step that read `field`
EntryOf(field) == reads[CHOOSE k \in DOMAIN reads : reads[k].field = field]

StartOf(field) == EntryOf(field).at
EndOf(field) == EntryOf(field).at + EntryOf(field).n

\* the first 20 bytes of the file are the marker
MagicPresent == read(file, 0, Len(MAGIC_BYTE)) = MAGIC_BYTE

\* extract_tags has returned
Returned == pc = "done"

\* the exceptions a read of too few bytes ends in
TruncationErrors == {"struct.error", "IndexError"}

\* f & 0x7C: the bits 0x40, 0x20, 0x10, 0x08, 0x04 of f
OptionalBits(f) == ((f \div 4) % 32) * 4

\* at least one of the bits 0x40, 0x20, 0x10, 0x08, 0x04 is set
AnyOptionalBit(f) == OptionalBits(f) # 0

\* the optional fields the bits of f announce, in the order of the format
ExpectedOptionalFields(f) ==
    (IF Bit(f, 64) THEN <<"start_lat", "start_lon">> ELSE <<>>)
    \o (IF Bit(f, 32) THEN <<"start_zoom">> ELSE <<>>)
    \o (IF Bit(f, 16) THEN <<"language">> ELSE <<>>)
    \o (IF Bit(f, 8) THEN <<"comment">> ELSE <<>>)
    \o (IF Bit(f, 4) THEN <<"created_by">> ELSE <<>>)

\* the cursor after the optional fields of flags f that start at p, for a
\* stream that holds them: 8 bytes, 1 byte, and three strings
ExpectedOptionalEnd(f, p) ==
    LET p1 == IF Bit(f, 64) THEN p + 8 ELSE p
        p2 == IF Bit(f, 32) THEN p1 + 1 ELSE p1
        p3 == IF Bit(f, 16) THEN read_utf8_string(file, p2).pos ELSE p2
        p4 == IF Bit(f, 8) THEN read_utf8_string(file, p3).pos ELSE p3 IN
    IF Bit(f, 4) THEN read_utf8_string(file, p4).pos ELSE p4

\* the fields read between the flags byte and the POI tag count
OptionalFieldsRead ==
    LET lo == CHOOSE k \in DOMAIN reads : reads[k].field = "flags"
        hi == CHOOSE k \in DOMAIN reads : reads[k].field = "num_poi_tags" IN
    [k \in 1..(hi - lo - 1) |-> reads[lo + k].field]

\* the steps that read the entries of a tag table
TagReads(field) == {k \in DOMAIN reads : reads[k].field = field}

----------------------------------------------------------------------------
(* C1 *)

\* C1: all-or-nothing decode. While extract_tags runs and after it returned
\* False, self.tags is what it was before the call (the empty list of
\* __init__); after it returned True, self.tags holds exactly the three keys
\* poi_tags, way_tags and zoom_intervals with the complete sequences decoded
C1_AllOrNothing ==
    /\ ret # "True" => tags = <<>>
    /\ ret = "True" =>
        /\ DOMAIN tags = {"poi_tags", "way_tags", "zoom_intervals"}
        /\ tags.poi_tags = loc.poi_tags
        /\ tags.way_tags = loc.way_tags
        /\ tags.zoom_intervals = loc.zoom_intervals
        /\ Len(tags.poi_tags) = loc.num_poi_tags
        /\ Len(tags.way_tags) = loc.num_way_tags
        /\ Len(tags.zoom_intervals) = loc.num_zoom_intervals

\* a decode that fails by an exception after tags had been decoded
C1_Witness ==
    /\ Returned /\ ret = "False" /\ err \in TruncationErrors
    /\ Len(loc.poi_tags) = 2 /\ Len(loc.way_tags) = 1
    /\ tags = <<>>

----------------------------------------------------------------------------
(* C2 *)

\* C2: for a file whose first 20 bytes are not the marker (shorter files
\* included), the only read ever made is the marker's, the cursor never
\* passes offset 20, and extract_tags returns False by the marker test
C2_InvalidMagicStops ==
    (exists /\ ~MagicPresent) =>
        /\ pos <= Len(MAGIC_BYTE)
        /\ \A k \in DOMAIN reads : reads[k].field = "magic"
        /\ Len(reads) <= 1
        /\ Returned => ret = "False" /\ err = "InvalidMagic"

\* a file of more than 20 bytes with a wrong marker, after the return
C2_Witness ==
    /\ Returned /\ err = "InvalidMagic" /\ ret = "False"
    /\ Len(file) > Len(MAGIC_BYTE) /\ pos = Len(MAGIC_BYTE)

----------------------------------------------------------------------------
(* C3 *)

\* the count the stream declares where `field` was read
DeclaredU16(field) == BigEndian(read(file, StartOf(field), 2))

\* C3: after a successful decode the lengths of the three sequences are the
\* counts written in the stream at the offsets where the counts were read
C3_LengthsMatchCounts ==
    ret = "True" =>
        /\ Len(tags.poi_tags) = DeclaredU16("num_poi_tags")
        /\ Len(tags.way_tags) = DeclaredU16("num_way_tags")
        /\ Len(tags.zoom_intervals) = file[StartOf("num_zoom_intervals") + 1]

\* a success with two POI tags (one of them empty), a way tag and a zoom
\* interval
C3_Witness ==
    /\ ret = "True"
    /\ Len(tags.poi_tags) = 2 /\ tags.poi_tags[2] = <<>>
    /\ Len(tags.way_tags) >= 1
    /\ Len(tags.zoom_intervals) = 1

----------------------------------------------------------------------------
(* C4 *)

\* C4: when the stream ended before or inside an entry of the POI or way tag
\* table (so that the entry came out empty or shortened), extract_tags
\* returns False; a success has read every declared entry in full
C4_TruncatedTableFails ==
    /\ (Returned /\ \E k \in TagReads("poi_tag") \cup TagReads("way_tag") :
                        reads[k].short)
           => ret = "False" /\ err \in TruncationErrors
    /\ ret = "True" =>
        /\ Cardinality(TagReads("poi_tag")) = DeclaredU16("num_poi_tags")
        /\ Cardinality(TagReads("way_tag")) = DeclaredU16("num_way_tags")
        /\ \A k \in TagReads("poi_tag") \cup TagReads("way_tag") :
               ~reads[k].short

\* num_poi_tags = 3 with two entries before the end of the stream: the third
\* read came out empty, and the decode failed at the way tag count
C4_Witness ==
    /\ Returned /\ ret = "False" /\ err = "struct.error"
    /\ loc.num_poi_tags = 3 /\ Len(loc.poi_tags) = 3
    /\ loc.poi_tags[1] # <<>> /\ loc.poi_tags[3] = <<>>
    /\ \E k \in TagReads("poi_tag") : reads[k].short /\ reads[k].n = 0
    /\ \A k \in TagReads("poi_tag") : reads[k].short => reads[k].at = Len(file)
    /\ Cardinality({k \in TagReads("poi_tag") : reads[k].short}) = 1

----------------------------------------------------------------------------
(* C5 *)

\* the stream ends right after the flags byte, which was read
EndsAfterFlags ==
    /\ HasRead("flags") /\ EntryOf("flags").n = 1
    /\ Len(file) = EndOf("flags")

\* C5: a file that ends right after a flags byte with an optional-field bit
\* set makes extract_tags return False through the exception of a short read
C5_TruncatedAfterFlagsFails ==
    (Returned /\ EndsAfterFlags /\ AnyOptionalBit(loc.flags))
        => ret = "False" /\ err \in TruncationErrors

\* the language bit alone: the string read gave "" at the end of the
\* stream, and the POI tag count then failed
C5_Witness ==
    /\ Returned /\ EndsAfterFlags /\ loc.flags = 16
    /\ HasRead("language") /\ EntryOf("language").short
    /\ HasRead("num_poi_tags")
    /\ ret = "False" /\ err = "struct.error"

----------------------------------------------------------------------------
(* C6 *)

\* C6: once the POI tag count is read, the steps between it and the flags
\* byte are exactly the optional fields announced by bits 0x40, 0x20, 0x10,
\* 0x08, 0x04, in the order of the format, with 4 + 4 bytes for the start
\* position and 1 for the start zoom; the count is read where the fields
\* of those five bits end (bits 0x80 and 0x03 cleared), right after the
\* flags byte when none of them is set
C6_OptionalFieldsByFlags ==
    HasRead("num_poi_tags") =>
        /\ OptionalFieldsRead = ExpectedOptionalFields(loc.flags)
        /\ \A k \in DOMAIN reads :
            /\ reads[k].field \in {"start_lat", "start_lon"} => reads[k].n = 4
            /\ reads[k].field = "start_zoom" => reads[k].n = 1
        /\ StartOf("num_poi_tags")
             = ExpectedOptionalEnd(OptionalBits(loc.flags), EndOf("flags"))
        /\ ~AnyOptionalBit(loc.flags) => StartOf("num_poi_tags") = EndOf("flags")

\* a success with every bit of the flags byte set
C6_Witness ==
    /\ ret = "True" /\ loc.flags = 255
    /\ Len(OptionalFieldsRead) = 6
    /\ StartOf("num_poi_tags") > EndOf("flags") + 9

----------------------------------------------------------------------------
(* C7 *)

\* C7: the handle is open only while extract_tags is between open() and its
\* exit; after any return (True, False by the marker test, False by an
\* exception) it is closed
C7_HandleClosedOnExit ==
    /\ Returned => ~fopen
    /\ fopen => pc \notin {"open", "done"}

\* an exception raised in the middle of the decode, the handle closed
C7_Witness ==
    /\ Returned /\ err = "IndexError" /\ HasRead("num_zoom_intervals")
    /\ ~fopen

----------------------------------------------------------------------------
(* C8 *)

\* C8: read_variable_byte on the standard encoding of n returns n and leaves
\* the cursor right after the encoding, whatever bytes follow it
C8_VarintRoundTrip ==
    (prim.call = "read_variable_byte" /\ prim.n # None) =>
        /\ prim.ret = prim.n
        /\ pos = prim.pos0 + Len(encode_varint(prim.n))

\* the round trip of a three-byte encoding followed by other bytes
C8_Witness ==
    /\ prim.call = "read_variable_byte" /\ prim.n = 16384
    /\ prim.ret = 16384 /\ pos = prim.pos0 + 3 /\ Len(file) > pos

----------------------------------------------------------------------------
(* C9 *)

\* C9: read_utf8_string raises when the stream ends before its length prefix
\* terminates or before the declared number of bytes is there, and a
\* non-empty string it returns was read from exactly the declared bytes
C9_TruncatedStringRaises ==
    prim.call = "read_utf8_string" =>
        /\ (prim.length = None \/ prim.nread < prim.length) => prim.raised
        /\ prim.str # <<>> => prim.nread = prim.length

----------------------------------------------------------------------------
(* C10 *)

\* C10: a string read that finds the zero-length prefix (the byte 0x00) at
\* the cursor returns the empty string, reads no string byte and leaves the
\* cursor one byte further
C10_ZeroLengthString ==
    (prim.call = "read_utf8_string" /\ Len(file) > prim.pos0
        /\ file[prim.pos0 + 1] = 0) =>
        /\ prim.str = <<>>
        /\ prim.nread = 0
        /\ pos = prim.pos0 + 1

\* a zero-length prefix with more bytes after it
C10_Witness ==
    /\ prim.call = "read_utf8_string"
    /\ Len(file) > prim.pos0 + 1 /\ file[prim.pos0 + 1] = 0
    /\ prim.str = <<>> /\ pos = prim.pos0 + 1

----------------------------------------------------------------------------
(* C11 *)

\* the step that read the j-th entry of the POI table, of the way table
PoiRead(j) == (CHOOSE k \in DOMAIN reads : reads[k].field = "num_poi_tags") + j
WayRead(j) == (CHOOSE k \in DOMAIN reads : reads[k].field = "num_way_tags") + j

\* the string bytes (after the length prefix) that step k read
TagBody(k) ==
    SubSeq(file, read_variable_byte(file, reads[k].at).pos + 1,
           reads[k].at + reads[k].n)

\* every byte is ASCII or a stray continuation byte 0x80..0xBF, so that each
\* byte from 0x80 on is an invalid sequence of its own
AsciiOrStray(b) == \A i \in DOMAIN b : b[i] < 192

HasStray(b) == \E i \in DOMAIN b : b[i] >= 128

\* b with its invalid bytes dropped
StrayDropped(b) == SelectSeq(b, LAMBDA x : x < 128)

\* b with U+FFFD in the place of each invalid byte
StrayReplaced(b) == [i \in DOMAIN b |-> IF b[i] < 128 THEN b[i] ELSE 65533]

----------------------------------------------------------------------------
(* C12 *)

\* the zoom-interval record whose 19 bytes start at offset a
ZoomRecordAt(a) ==
    [base_zoom |-> file[a + 1], min_zoom |-> file[a + 2],
     max_zoom |-> file[a + 3],
     subfile_start |-> Limbs(SubSeq(file, a + 4, a + 11)),
     subfile_size |-> Limbs(SubSeq(file, a + 12, a + 19))]

----------------------------------------------------------------------------
(* C13 *)

\* the fixed part of the header: field, offset, width
HeaderLayout ==
    << <<"magic", 0, 20>>, <<"header_size", 20, 4>>, <<"file_version", 24, 4>>,
       <<"file_size", 28, 8>>, <<"date_created", 36, 8>>, <<"min_lat", 44, 4>>,
       <<"min_lon", 48, 4>>, <<"max_lat", 52, 4>>, <<"max_lon", 56, 4>>,
       <<"tile_size", 60, 2>> >>

\* C13: for a file with the marker, the first reads are the fixed header
\* fields in the order and at the offsets of HeaderLayout, the projection
\* string is read at offset 62 and the flags byte right after it
C13_HeaderLayout ==
    (exists /\ MagicPresent) =>
        \A k \in DOMAIN reads :
            /\ k <= 10 =>
                /\ reads[k].field = HeaderLayout[k][1]
                /\ reads[k].at = HeaderLayout[k][2]
                /\ ~reads[k].short => reads[k].n = HeaderLayout[k][3]
            /\ k = 11 =>
                /\ reads[k].field = "projection" /\ reads[k].at = 62
                /\ (~reads[k].short /\ file[63] < 128) => reads[k].n = 1 + file[63]
            /\ k = 12 =>
                /\ reads[k].field = "flags"
                /\ reads[k].at = reads[11].at + reads[11].n

\* the flags byte read at offset 71, after the 9 bytes of the projection
C13_Witness ==
    /\ Len(reads) >= 12
    /\ reads[12].field = "flags" /\ reads[12].at = 71 /\ reads[12].n = 1

----------------------------------------------------------------------------
(* C14 *)

\* C14: a failure to open the file is not reported with the value that
\* format errors are reported with. Invalid magic and truncated input make
\* extract_tags return False (C2, C5), so an I/O failure must return
\* something else
C14_IOFailureDistinct ==
    (Returned /\ err = "OSError") => ret # "False"

----------------------------------------------------------------------------
(* C15 *)

\* C15: a call with use_osmium=None that does not return True has attempted
\* extract_tags_with_osmium, in particular when the osmium module is not
\* installed
C15_FallbackToOsmiumTool ==
    (pc = "pbf_done" /\ pbf.use_osmium = "None" /\ pbf.ret # "True")
        => pbf.tried_osmium

----------------------------------------------------------------------------
(* C16 *)

\* the files of the folder whose decode succeeds
Succeeding == {n \in folder.glob : folder.outcome[n] = "True"}

\* what C16 says of a returned call on a directory
BatchIsolated ==
    /\ folder.processed = sorted(folder.glob)
    /\ folder.success_count + Len(folder.failed_files) = Cardinality(folder.glob)
    /\ folder.success_count = Cardinality(Succeeding)
    /\ folder.failed_files = SelectSeq(sorted(folder.glob),
                                       LAMBDA n : n \notin Succeeding)
    /\ folder.all_poi_tags
         = UNION {Range(FileTags(n).poi_tags) : n \in Succeeding}
    /\ folder.all_way_tags
         = UNION {Range(FileTags(n).way_tags) : n \in Succeeding}
    /\ folder.ret = "True" <=> folder.failed_files = <<>>

\* C16 as stated: for any list of .map files and any pattern of failures,
\* every file is processed once in sorted order, the counts add up, the
\* consolidated sets hold the tags of the decoded files only, and the
\* function returns True exactly when no file failed
C16_BatchIsolation ==
    (pc = "folder_done" /\ folder.kind = "dir") => BatchIsolated

\* C16 as amended: the same, for any list of .map files that is not empty
C16_BatchIsolationNonEmpty ==
    (pc = "folder_done" /\ folder.kind = "dir" /\ folder.glob # {})
        => BatchIsolated

\* three files: the first fails to decode, the second raises, the third
\* decodes and is the only one whose tags are consolidated
C16_Witness ==
    /\ pc = "folder_done"
    /\ folder.processed = <<1, 2, 3>>
    /\ folder.outcome[1] = "False" /\ folder.outcome[2] = "raise"
    /\ folder.outcome[3] = "True"
    /\ folder.failed_files = <<1, 2>> /\ folder.success_count = 1
    /\ folder.all_poi_tags = {<<97>>, <<51>>}
    /\ folder.ret = "False"

----------------------------------------------------------------------------
(* C17 *)

\* C17: the steps of a decode tile the stream from offset 0: each starts
\* where the one before ended and reads forward, and the cursor is the end
\* of the last one, never beyond the end of the file
C17_SingleForwardPass ==
    /\ \A k \in DOMAIN reads :
        /\ reads[k].n >= 0
        /\ reads[k].at = IF k = 1 THEN 0 ELSE reads[k - 1].at + reads[k - 1].n
    /\ pos = IF reads = <<>> THEN 0
             ELSE reads[Len(reads)].at + reads[Len(reads)].n
    /\ pos <= Len(file)

\* a success that read the optional fields and left subfile data unread
C17_Witness ==
    /\ ret = "True" /\ loc.flags = 124
    /\ Len(reads) > 20
    /\ pos < Len(file)

----------------------------------------------------------------------------
(* C18 *)

\* the stream has a byte without the continuation bit
HasFinalByte == \E i \in DOMAIN file : file[i] < 128

\* the 1-based index of the first such byte
FirstFinalByte == CHOOSE i \in DOMAIN file :
    file[i] < 128 /\ \A j \in 1..(i - 1) : file[j] >= 128

\* what a returned call of read_variable_byte has done to the stream
VarByteOutcome ==
    pc = "var_byte_done" =>
        IF HasFinalByte
        THEN prim.ret # None /\ pos = FirstFinalByte
        ELSE prim.ret = None /\ pos = Len(file)

\* C18: on every finite stream read_variable_byte returns: at the first byte
\* without the continuation bit, however many continuation bytes come before
\* it, with a value; at the end of a stream that has no such byte, with None
C18_Terminates == []VarByteOutcome /\ <>(pc = "var_byte_done")

\* a stream of more than ten bytes, all of them continuation bytes, read to
\* its end and answered with None
C18_Witness ==
    /\ pc = "var_byte_done"
    /\ Len(file) > 10 /\ ~HasFinalByte
    /\ prim.ret = None /\ pos = Len(file)

====
